---- MODULE Spec2Model ----
\* A model of the dgeni Package descriptor (src/src/Package.ts): the constructor
\* and the registration methods processor, factory, type, config, eventHandler.
\*
\* JavaScript values are records [k, s, nm, items]:
\*   k      the kind: "undefined", "null", "boolean", "number", "string",
\*          "object", "function" or "array";
\*   s      the text of a string, the decimal text of a number, "true"/"false"
\*          of a boolean, and an identity label for objects and functions;
\*   nm     the value of the `name` property, a primitive [k, s];
\*   items  the elements of an array.
EXTENDS Integers, Sequences, FiniteSets, TLC

VARIABLES pc, name, dependencies, module, processors, configFns, handlers, calls

vars == <<pc, name, dependencies, module, processors, configFns, handlers, calls>>

\* The registries of a descriptor, the fields the registration methods write.
registries == <<module, processors, configFns, handlers>>

\* ---------------------------------------------------------------- bounds

\* The number of registration calls made on one descriptor.
MaxCalls == 2

\* ---------------------------------------------------------------- values

Prim(k, s) == [k |-> k, s |-> s]

NoName == Prim("undefined", "undefined")

Val(k, s, nm) == [k |-> k, s |-> s, nm |-> nm, items |-> <<>>]

undefinedV == Val("undefined", "undefined", NoName)

nullV == Val("null", "null", NoName)

Num(s) == Val("number", s, NoName)

Str(s) == Val("string", s, NoName)

Bool(s) == Val("boolean", s, NoName)

\* function <nm>() {} ; an anonymous function has the name "".
Fn(id, nm) == Val("function", id, Prim("string", nm))

\* An object literal {name: nm}.
Obj(id, nm) == Val("object", id, nm)

Arr(items) == [k |-> "array", s |-> "array", nm |-> NoName, items |-> items]

\* A primitive (a name read from a value) used as a value again.
Lift(p) == Val(p.k, p.s, NoName)

\* The typeof operator.
TypeOf(v) == IF v.k \in {"null", "array"} THEN "object" ELSE v.k

\* Array.isArray.
IsArray(v) == v.k = "array"

\* Truthiness, as `!!v`, `v && ...` and `v || ...` decide it.
Truthy(v) ==
    CASE v.k \in {"undefined", "null"} -> FALSE
      [] v.k = "boolean" -> v.s = "true"
      [] v.k = "number" -> v.s \notin {"0", "NaN"}
      [] v.k = "string" -> v.s # ""
      [] OTHER -> TRUE

\* Reading a property of undefined or null throws a TypeError.
HasProperties(v) == v.k \notin {"undefined", "null"}

\* v.name, for a value that has properties.
NameOf(v) == v.nm

\* The property key a name is converted to by module[name].
ToPropertyKey(p) == p.s

isString(value) == TypeOf(value) = "string"

isObject(value) == Truthy(value) /\ TypeOf(value) \in {"object", "function"}

\* A map with no keys: the object literal {}.
EmptyObject == [key \in {} |-> 0]

\* A slip: an assignment that keeps the property a key already has.
SetOwnIfAbsent(obj, key, value) ==
    [k \in DOMAIN obj \cup {key} |-> IF k \in DOMAIN obj THEN obj[k] ELSE value]

\* A slip: the map replaced by one that holds the new property alone.
SetOwnAlone(obj, key, value) == [k \in {key} |-> value]

\* obj[key] = value on a map of own properties.
SetOwn(obj, key, value) ==
    [k \in DOMAIN obj \cup {key} |-> IF k = key THEN value ELSE obj[k]]

\* A slip: an element already in the list is not added again.
pushUnique(list, x) ==
    IF \E j \in 1..Len(list) : list[j] = x THEN list ELSE Append(list, x)

\* list.push(x)
push(list, x) == Append(list, x)

\* ---------------------------------------------------------------- calls

\* The record of one call: the operation, its arguments and whether it returned
\* (ok) or threw.
Call(op, a, b, ok) == [op |-> op, a |-> a, b |-> b, ok |-> ok]

Init ==
    /\ pc = "new"
    /\ name = undefinedV
    /\ dependencies = undefinedV
    /\ module = EmptyObject
    /\ processors = <<>>
    /\ configFns = <<>>
    /\ handlers = EmptyObject
    /\ calls = <<>>

\* The arguments the constructor is called with.
CtorNames == {Str("p"), Num("42")}

CtorDependencies ==
    {undefinedV, Arr(<<>>), Arr(<<Str("q"), Str("r")>>), nullV, Num("0"), Bool("false"),
     Str(""), Str("q"), Obj("o", NoName)}

\* A slip: the dependencies given are dropped for the default.
DefaultDependenciesAlways(d) == Arr(<<>>)

\* The default parameter `dependencies = []` applies to undefined only.
DefaultDependencies(d) == IF d.k = "undefined" THEN Arr(<<>>) ELSE d

\* Whether new Package(n, d) returns (does not throw).
ConstructorAccepts(n, d) ==
    /\ ~(TypeOf(n) # "string")
    /\ ~(Truthy(DefaultDependencies(d)) /\ ~IsArray(DefaultDependencies(d)))

Construct(n, d) ==
    /\ pc = "new"
    /\ IF ConstructorAccepts(n, d)
       THEN /\ pc' = "ready"
            /\ name' = n
            /\ dependencies' = DefaultDependencies(d)
       ELSE /\ pc' = "failed"
            /\ UNCHANGED <<name, dependencies>>
    /\ calls' = Append(calls, Call("new", n, d, ConstructorAccepts(n, d)))
    /\ UNCHANGED registries

\* ---------------------------------------------------------------- isPackage

\* A value with the properties isPackage reads: its kind k, and the values of
\* name, dependencies and module (undefined for a property it does not have).
WithProperties(k, n, d, m) == [k |-> k, name |-> n, dependencies |-> d, module |-> m]

\* Package.isPackage(pkg): whether it returned (ok) and what. Reading pkg.name
\* of undefined or null throws.
isPackage(pkg) ==
    IF ~HasProperties(pkg)
    THEN [ok |-> FALSE, value |-> FALSE]
    ELSE [ok |-> TRUE,
          value |-> /\ isString(pkg.name)
                    /\ IsArray(pkg.dependencies)
                    /\ isObject(pkg.module)]

\* The descriptor as isPackage sees it: its name, its dependencies, and its
\* module, the object created by the field initializer and never reassigned.
ThisPackage == WithProperties("object", name, dependencies, Obj("module", NoName))

\* The values isPackage is given: undefined, null, a number, and objects with
\* every combination of the property values below.
NameProperties == {undefinedV, Str("p"), Str(""), Num("42")}

DependenciesProperties == {undefinedV, nullV, Arr(<<>>), Arr(<<Str("q")>>), Str("q")}

ModuleProperties ==
    {undefinedV, nullV, Obj("module", NoName), Fn("module", "module"), Arr(<<>>), Str("m")}

PackageArgs ==
    {WithProperties(k, undefinedV, undefinedV, undefinedV) : k \in {"undefined", "null", "number"}}
        \cup {WithProperties("object", n, d, m) :
                 n \in NameProperties, d \in DependenciesProperties, m \in ModuleProperties}

\* One call of Package.isPackage on a value, recorded with its result.
IsPackage(v) ==
    /\ pc = "new"
    /\ calls = <<>>
    /\ pc' = "checked"
    /\ calls' = <<Call("isPackage", v,
                       IF isPackage(v).value THEN Bool("true") ELSE Bool("false"),
                       isPackage(v).ok)>>
    /\ UNCHANGED <<name, dependencies, registries>>

NextIsPackage == \E v \in PackageArgs : IsPackage(v)

SpecIsPackage == Init /\ [][NextIsPackage]_vars

\* ---------------------------------------------------------------- registration

\* One entry of the module map: the array [kind, value].
Entry(kind, value) == <<kind, value>>

\* A slip: the name is listed before it is validated.
processorListsFirst(m, ps, processorDefOrName, processorDef) ==
    LET def == IF isString(processorDefOrName) THEN processorDef ELSE processorDefOrName
        nm == IF isString(processorDefOrName)
              THEN Prim("string", processorDefOrName.s)
              ELSE NameOf(def)
        throws == /\ ~isString(processorDefOrName)
                  /\ (~HasProperties(def) \/ ~Truthy(NameOf(def)))
        entry == IF TypeOf(def) = "function"
                 THEN Entry("factory", def)
                 ELSE Entry("value", def)
    IN  IF throws
        THEN [ok |-> FALSE, module |-> m, processors |-> push(ps, nm)]
        ELSE [ok |-> TRUE,
              module |-> SetOwn(m, ToPropertyKey(nm), entry),
              processors |-> push(ps, nm)]

\* processor(processorDefOrName, processorDef) on module map m and list ps.
processor(m, ps, processorDefOrName, processorDef) ==
    LET def == IF isString(processorDefOrName) THEN processorDef ELSE processorDefOrName
        nm == IF isString(processorDefOrName)
              THEN Prim("string", processorDefOrName.s)
              ELSE NameOf(def)
        throws == /\ ~isString(processorDefOrName)
                  /\ (~HasProperties(def) \/ ~Truthy(NameOf(def)))
        entry == IF TypeOf(def) = "function"
                 THEN Entry("factory", def)
                 ELSE Entry("value", def)
    IN  IF throws
        THEN [ok |-> FALSE, module |-> m, processors |-> ps]
        ELSE [ok |-> TRUE,
              module |-> SetOwn(m, ToPropertyKey(nm), entry),
              processors |-> push(ps, nm)]

\* A slip: the name of the function preferred to the name given.
factoryIntrinsicFirst(m, serviceFactoryOrName, serviceFactory) ==
    LET named == TypeOf(serviceFactoryOrName) = "string"
        def == IF named THEN serviceFactory ELSE serviceFactoryOrName
        nm == IF HasProperties(def) /\ Truthy(NameOf(def))
              THEN NameOf(def)
              ELSE Prim("string", serviceFactoryOrName.s)
        throws == \/ ~named /\ (~HasProperties(def) \/ ~Truthy(NameOf(def)))
                  \/ TypeOf(def) # "function"
    IN  IF throws
        THEN [ok |-> FALSE, module |-> m]
        ELSE [ok |-> TRUE, module |-> SetOwn(m, ToPropertyKey(nm), Entry("factory", def))]

\* factory(serviceFactoryOrName, serviceFactory) on module map m.
factory(m, serviceFactoryOrName, serviceFactory) ==
    LET named == TypeOf(serviceFactoryOrName) = "string"
        def == IF named THEN serviceFactory ELSE serviceFactoryOrName
        nm == IF named THEN Prim("string", serviceFactoryOrName.s) ELSE NameOf(def)
        throws == \/ ~named /\ (~HasProperties(def) \/ ~Truthy(NameOf(def)))
                  \/ TypeOf(def) # "function"
    IN  IF throws
        THEN [ok |-> FALSE, module |-> m]
        ELSE [ok |-> TRUE, module |-> SetOwn(m, ToPropertyKey(nm), Entry("factory", def))]

\* type(ServiceTypeOrName, ServiceType) on module map m.
type(m, ServiceTypeOrName, ServiceType) ==
    LET named == TypeOf(ServiceTypeOrName) = "string"
        def == IF named THEN ServiceType ELSE ServiceTypeOrName
        nm == IF named THEN Prim("string", ServiceTypeOrName.s) ELSE NameOf(def)
        throws == \/ ~named /\ (~HasProperties(def) \/ ~Truthy(NameOf(def)))
                  \/ TypeOf(def) # "function"
    IN  IF throws
        THEN [ok |-> FALSE, module |-> m]
        ELSE [ok |-> TRUE, module |-> SetOwn(m, ToPropertyKey(nm), Entry("type", def))]

\* config(configFn) on list cf.
config(cf, configFn) ==
    IF TypeOf(configFn) # "function"
    THEN [ok |-> FALSE, configFns |-> cf]
    ELSE [ok |-> TRUE, configFns |-> push(cf, configFn)]

\* The properties every object literal inherits from Object.prototype; here the
\* one used as an event name below. Object is a function of one parameter.
ObjectPrototype == [key \in {"constructor"} |-> Fn("Object", "Object")]

\* obj[key]: the own property, else the inherited one, else undefined.
Get(obj, key) ==
    IF key \in DOMAIN obj THEN obj[key]
    ELSE IF key \in DOMAIN ObjectPrototype THEN ObjectPrototype[key]
    ELSE undefinedV

\* v.length as text: the number of elements of an array, the number of declared
\* parameters of a function.
LengthText(v) ==
    IF IsArray(v) THEN ToString(Len(v.items))
    ELSE IF v = ObjectPrototype["constructor"] THEN ToString(1)
    ELSE ToString(0)

\* A slip: the handler factory alone is validated.
eventHandlerRejectsFactoryOnly(eventName, handlerFactory) ==
    TypeOf(handlerFactory) # "function"

\* The two validations eventHandler starts with: whether it throws at once.
eventHandlerRejects(eventName, handlerFactory) ==
    TypeOf(eventName) # "string" \/ TypeOf(handlerFactory) # "function"

\* A slip: the handler is listed and never registered.
registerHandlerSkipped(m, handlerName, handlerFactory) == [ok |-> TRUE, module |-> m]

\* this.factory(handlerName, handlerFactory)
registerHandler(m, handlerName, handlerFactory) ==
    factory(m, Lift(handlerName), handlerFactory)

\* A slip: the event name left out of the synthesized name.
SynthesizedNameNoEvent(pkgName, eventName, list) ==
    Prim("string", pkgName.s \o "_" \o LengthText(list))

\* this.name + '_' + eventName + '_' + handlers.length
SynthesizedName(pkgName, eventName, list) ==
    Prim("string", pkgName.s \o "_" \o eventName.s \o "_" \o LengthText(list))

\* A slip: the synthesized name used whatever the handler is called.
HandlerNameSynthesized(pkgName, eventName, list, handlerFactory) ==
    SynthesizedName(pkgName, eventName, list)

\* handlerFactory.name || (synthesized name)
HandlerName(pkgName, eventName, list, handlerFactory) ==
    IF Truthy(NameOf(handlerFactory))
    THEN NameOf(handlerFactory)
    ELSE SynthesizedName(pkgName, eventName, list)

\* eventHandler(eventName, handlerFactory) on module map m and handler map hs of
\* the package named pkgName. The statements run in the order of the source: the
\* list is stored in the handler map, then factory() writes the module map, then
\* push() appends; push exists on arrays only.
eventHandler(pkgName, m, hs, eventName, handlerFactory) ==
    IF eventHandlerRejects(eventName, handlerFactory)
    THEN [ok |-> FALSE, module |-> m, handlers |-> hs]
    ELSE LET found == Get(hs, eventName.s)
             list == IF Truthy(found) THEN found ELSE Arr(<<>>)
             stored == SetOwn(hs, eventName.s, list)
             handlerName == HandlerName(pkgName, eventName, list, handlerFactory)
             registered == registerHandler(m, handlerName, handlerFactory)
         IN  IF ~registered.ok
             THEN [ok |-> FALSE, module |-> m, handlers |-> stored]
             ELSE IF ~IsArray(list)
             THEN [ok |-> FALSE, module |-> registered.module, handlers |-> stored]
             ELSE [ok |-> TRUE,
                   module |-> registered.module,
                   handlers |-> SetOwn(hs, eventName.s,
                                       Arr(push(list.items, handlerName)))]

\* ---------------------------------------------------------------- arguments

fnAnon == Fn("fnAnon", "")

fnA == Fn("fnA", "a")

fnP == Fn("fnP", "p_e_1")

objA == Obj("objA", Prim("string", "a"))

objNoName == Obj("objNoName", NoName)

objSeven == Obj("objSeven", Prim("number", "7"))

\* (first, second) arguments of processor, factory and type: a string with a
\* second argument, or a value alone (the second argument is then overwritten
\* before it is read).
NameArgs == {Str(""), Str("a")}

Named(seconds) == NameArgs \X seconds

Alone(firsts) == firsts \X {undefinedV}

ProcessorArgs ==
    Named({undefinedV, fnAnon, objA})
        \cup Alone({undefinedV, Num("42"), fnAnon, fnA, objA, objNoName, objSeven})

FactoryArgs ==
    Named({Num("42"), fnAnon, fnP}) \cup Alone({undefinedV, fnAnon, fnA, objA})

TypeArgs ==
    Named({Num("42"), fnAnon}) \cup Alone({undefinedV, fnAnon, fnA, objA})

ConfigArgs == {fnAnon, fnA, Num("42")}

EventArgs == {Str("e"), Str("f"), Str(""), Str("constructor"), Num("42")}

HandlerArgs == {fnAnon, fnA, fnP, Num("42")}

\* ---------------------------------------------------------------- actions

CanCall == pc = "ready" /\ Len(calls) <= MaxCalls

Processor(a, b) ==
    /\ CanCall
    /\ LET r == processor(module, processors, a, b)
       IN  /\ module' = r.module
           /\ processors' = r.processors
           /\ calls' = Append(calls, Call("processor", a, b, r.ok))
    /\ UNCHANGED <<pc, name, dependencies, configFns, handlers>>

Factory(a, b) ==
    /\ CanCall
    /\ LET r == factory(module, a, b)
       IN  /\ module' = r.module
           /\ calls' = Append(calls, Call("factory", a, b, r.ok))
    /\ UNCHANGED <<pc, name, dependencies, processors, configFns, handlers>>

Type(a, b) ==
    /\ CanCall
    /\ LET r == type(module, a, b)
       IN  /\ module' = r.module
           /\ calls' = Append(calls, Call("type", a, b, r.ok))
    /\ UNCHANGED <<pc, name, dependencies, processors, configFns, handlers>>

Config(fn) ==
    /\ CanCall
    /\ LET r == config(configFns, fn)
       IN  /\ configFns' = r.configFns
           /\ calls' = Append(calls, Call("config", fn, undefinedV, r.ok))
    /\ UNCHANGED <<pc, name, dependencies, module, processors, handlers>>

EventHandler(e, f) ==
    /\ CanCall
    /\ LET r == eventHandler(name, module, handlers, e, f)
       IN  /\ module' = r.module
           /\ handlers' = r.handlers
           /\ calls' = Append(calls, Call("eventHandler", e, f, r.ok))
    /\ UNCHANGED <<pc, name, dependencies, processors, configFns>>

Next ==
    \/ \E n \in CtorNames, d \in CtorDependencies : Construct(n, d)
    \/ \E args \in ProcessorArgs : Processor(args[1], args[2])
    \/ \E args \in FactoryArgs : Factory(args[1], args[2])
    \/ \E args \in TypeArgs : Type(args[1], args[2])
    \/ \E fn \in ConfigArgs : Config(fn)
    \/ \E e \in EventArgs, f \in HandlerArgs : EventHandler(e, f)

Spec == Init /\ [][Next]_vars

\* ---------------------------------------------------------------- the calls made

\* The call just made.
Last == calls[Len(calls)]

Succeeded == {i \in 1..Len(calls) : calls[i].ok}

\* The successful calls that register something under a name.
Writes ==
    {i \in Succeeded : calls[i].op \in {"processor", "factory", "type", "eventHandler"}}

\* Every registration call made so far returned.
AllReturned == \A i \in 2..Len(calls) : calls[i].ok

\* The number of successful eventHandler calls for the event of call i before it.
HandledBefore(i) ==
    Cardinality({j \in 1..(i - 1) : /\ calls[j].op = "eventHandler"
                                    /\ calls[j].ok
                                    /\ calls[j].a = calls[i].a})

\* The value call i registers: the second argument after a name, else the first.
RegisteredValue(i) ==
    IF calls[i].op = "eventHandler" \/ calls[i].a.k = "string"
    THEN calls[i].b
    ELSE calls[i].a

\* The name call i resolves to: the explicit string, else the intrinsic name of
\* the value; for a handler its own name, else package_event_count.
ResolvedName(i) ==
    IF calls[i].op = "eventHandler"
    THEN IF calls[i].b.nm.s # ""
         THEN calls[i].b.nm
         ELSE Prim("string", calls[1].a.s \o "_" \o calls[i].a.s \o "_"
                                 \o ToString(HandledBefore(i)))
    ELSE IF calls[i].a.k = "string"
         THEN Prim("string", calls[i].a.s)
         ELSE calls[i].a.nm

\* The entry call i writes.
WrittenEntry(i) ==
    CASE calls[i].op = "type" -> <<"type", RegisteredValue(i)>>
      [] calls[i].op = "processor" /\ RegisteredValue(i).k # "function" ->
            <<"value", RegisteredValue(i)>>
      [] OTHER -> <<"factory", RegisteredValue(i)>>

\* The successful calls that resolved to the key.
WritesTo(key) == {i \in Writes : ResolvedName(i).s = key}

Latest(S) == CHOOSE i \in S : \A j \in S : j <= i

\* The elements of handlers[e] when it is a list.
Listed(e) ==
    IF e \in DOMAIN handlers /\ IsArray(handlers[e]) THEN handlers[e].items ELSE <<>>

\* ---------------------------------------------------------------- claims

\* C1: a call to processor, factory, type, config or eventHandler that throws
\* leaves module, processors, configFns and handlers (its event keys included)
\* exactly as they were before the call.
C1_FailedCallChangesNothing ==
    [][(calls' # calls /\ ~calls'[Len(calls')].ok) => UNCHANGED registries]_vars

\* C2: after a sequence of successful calls, module holds for every name the
\* entry written by the most recent call that resolved to it, and nothing else.
C2_LastWriteWins ==
    AllReturned =>
        /\ DOMAIN module = {ResolvedName(i).s : i \in Writes}
        /\ \A key \in DOMAIN module : module[key] = WrittenEntry(Latest(WritesTo(key)))

\* A value entry written over a factory entry of the same name.
C2_Witness ==
    /\ Len(calls) = 3
    /\ AllReturned
    /\ calls[2].op = "factory"
    /\ calls[3].op = "processor"
    /\ ResolvedName(2) = ResolvedName(3)
    /\ WrittenEntry(2)[1] = "factory"
    /\ module[ResolvedName(3).s][1] = "value"

\* The names, in call order, of the successful calls of S (a set of indices).
RECURSIVE InOrder(_, _)
InOrder(S, upto) ==
    IF upto = 0 THEN <<>>
    ELSE IF upto \in S
         THEN Append(InOrder(S, upto - 1), upto)
         ELSE InOrder(S, upto - 1)

NamesOf(S) == [j \in 1..Len(InOrder(S, Len(calls))) |-> ResolvedName(InOrder(S, Len(calls))[j])]

ValuesOf(S) == [j \in 1..Len(InOrder(S, Len(calls))) |-> calls[InOrder(S, Len(calls))[j]].a]

OkCalls(op) == {i \in Succeeded : calls[i].op = op}

OkHandlers(e) == {i \in OkCalls("eventHandler") : calls[i].a.s = e}

EventsNamed == {calls[i].a.s : i \in {j \in 1..Len(calls) : calls[j].op = "eventHandler"}}

\* C3: processors, configFns and every handlers[e] hold, in call order, what
\* the successful processor, config and eventHandler(e, ...) calls registered.
C3_RegistrationOrder ==
    /\ processors = NamesOf(OkCalls("processor"))
    /\ configFns = ValuesOf(OkCalls("config"))
    /\ \A e \in DOMAIN handlers \cup EventsNamed :
          /\ e \in DOMAIN handlers => IsArray(handlers[e])
          /\ Listed(e) = NamesOf(OkHandlers(e))

\* An eventHandler call has just returned; Anonymous/Named tell its handler factory.
HandlerAdded ==
    /\ calls' # calls
    /\ calls'[Len(calls')].op = "eventHandler"
    /\ calls'[Len(calls')].ok

AnonymousAdded == HandlerAdded /\ calls'[Len(calls')].b.nm.s = ""

NamedAdded == HandlerAdded /\ calls'[Len(calls')].b.nm.s # ""

\* C4: the name synthesized for an anonymous handler of event e differs from
\* every name already in handlers[e].
C4_SynthesizedNameUnique ==
    [][AnonymousAdded =>
          LET e == calls'[Len(calls')].a.s
              given == handlers'[e].items[Len(handlers'[e].items)]
          IN  \A j \in 1..Len(Listed(e)) : Listed(e)[j] # given]_vars

C6_HandlersAreFactories ==
    \A e \in DOMAIN handlers : \A j \in 1..Len(Listed(e)) :
        /\ Listed(e)[j].s \in DOMAIN module
        /\ module[Listed(e)[j].s][1] = "factory"

\* C6 amended: every name listed in a handlers[e] is a key of module, and its
\* entry has kind "factory" unless it is the entry a successful processor or
\* type call wrote under that name.
C6_HandlersRegistered ==
    \A e \in DOMAIN handlers : \A j \in 1..Len(Listed(e)) :
        /\ Listed(e)[j].s \in DOMAIN module
        /\ \/ module[Listed(e)[j].s][1] = "factory"
           \/ \E i \in Writes : /\ calls[i].op \in {"processor", "type"}
                                /\ ResolvedName(i).s = Listed(e)[j].s
                                /\ module[Listed(e)[j].s] = WrittenEntry(i)

\* A listed handler whose entry a later type call replaced.
C6_Witness ==
    /\ Len(calls) = 3
    /\ calls[2].op = "eventHandler" /\ calls[2].ok
    /\ calls[3].op = "type" /\ calls[3].ok
    /\ Listed(calls[2].a.s) = <<ResolvedName(3)>>
    /\ module[ResolvedName(3).s][1] = "type"

\* C7: a successful eventHandler(e, f) with f named h makes module[h] the
\* factory entry of f, appends h to handlers[e], and changes nothing else.
C7_NamedHandler ==
    [][NamedAdded =>
          LET e == calls'[Len(calls')].a.s
              f == calls'[Len(calls')].b
              h == f.nm
          IN  /\ module' = [key \in DOMAIN module \cup {h.s} |->
                              IF key = h.s THEN <<"factory", f>> ELSE module[key]]
              /\ handlers' = [key \in DOMAIN handlers \cup {e} |->
                                IF key = e THEN Arr(Append(Listed(e), h))
                                ELSE handlers[key]]
              /\ UNCHANGED <<name, dependencies, processors, configFns>>]_vars

\* function a() {} registered as the second handler of event e.
C7_Witness ==
    /\ Len(calls) = 3
    /\ calls[2].op = "eventHandler" /\ calls[2].ok /\ calls[2].a = Str("e")
    /\ Last = Call("eventHandler", Str("e"), fnA, TRUE)
    /\ Len(Listed("e")) = 2
    /\ Listed("e")[2] = Prim("string", "a")
    /\ module["a"] = <<"factory", fnA>>

\* Whether a name is a non-empty string.
NonEmptyString(p) == p.k = "string" /\ p.s # ""

\* C8: every key of module is a non-empty string; a processor, factory or type
\* call whose resolved name is not a non-empty string fails.
C8_NamesNonEmpty ==
    /\ \A key \in DOMAIN module : key # ""
    /\ \A i \in 1..Len(calls) :
          (calls[i].op \in {"processor", "factory", "type"}
             /\ ~NonEmptyString(ResolvedName(i))) => ~calls[i].ok

\* C9 as stated: eventHandler fails unless eventName is a non-empty string and
\* handlerFactory is callable; handlers has no empty event key.
C9_EventNameNonEmpty ==
    /\ \A i \in 1..Len(calls) :
          (calls[i].op = "eventHandler"
             /\ (~NonEmptyString(calls[i].a) \/ calls[i].b.k # "function"))
          => ~calls[i].ok
    /\ "" \notin DOMAIN handlers

\* C9 amended: eventHandler fails unless eventName is a string and
\* handlerFactory is callable; every event key of handlers is the string some
\* eventHandler call passed together with a callable.
C9_EventNameString ==
    /\ \A i \in 1..Len(calls) :
          (calls[i].op = "eventHandler"
             /\ (calls[i].a.k # "string" \/ calls[i].b.k # "function"))
          => ~calls[i].ok
    /\ \A e \in DOMAIN handlers :
          \E i \in 1..Len(calls) : /\ calls[i].op = "eventHandler"
                                   /\ calls[i].a = Str(e)
                                   /\ calls[i].b.k = "function"

\* A call with a number as event name and one with a number as handler factory,
\* both thrown and neither leaving an event key.
C9_Witness ==
    /\ Len(calls) = 3
    /\ calls[2] = Call("eventHandler", Num("42"), fnA, FALSE)
    /\ calls[3] = Call("eventHandler", Str("e"), Num("42"), FALSE)
    /\ DOMAIN handlers = {}

\* C10: construction fails for a name that is not a string and for a
\* dependencies argument that is given and is not an array; the dependencies of
\* a constructed descriptor are an array.
C10_ConstructorValidates ==
    /\ Len(calls) >= 1 =>
          ((calls[1].a.k # "string" \/ calls[1].b.k \notin {"undefined", "array"})
             => ~calls[1].ok)
    /\ pc = "ready" => IsArray(dependencies)

\* C11: for a string name and dependencies that are an array or omitted, the
\* descriptor just constructed has empty module, processors, configFns and
\* handlers, the given name, and the given dependencies element for element
\* (none when omitted).
C11_FreshDescriptor ==
    (/\ Len(calls) = 1
     /\ calls[1].a.k = "string"
     /\ calls[1].b.k \in {"undefined", "array"})
    => /\ pc = "ready"
       /\ DOMAIN module = {}
       /\ processors = <<>>
       /\ configFns = <<>>
       /\ DOMAIN handlers = {}
       /\ name = calls[1].a
       /\ IsArray(dependencies)
       /\ dependencies.items = IF calls[1].b.k = "undefined" THEN <<>> ELSE calls[1].b.items

\* A descriptor constructed with two dependencies, kept in their order.
C11_Witness ==
    /\ calls = <<Call("new", Str("p"), Arr(<<Str("q"), Str("r")>>), TRUE)>>
    /\ pc = "ready"
    /\ name = Str("p")
    /\ dependencies.items = <<Str("q"), Str("r")>>

\* Whether a value has a string name, an array dependencies and a module that
\* is an object or a function and not null.
PackageShaped(v) ==
    /\ v.name.k = "string"
    /\ v.dependencies.k = "array"
    /\ v.module.k \in {"object", "function", "array"}

\* C12: isPackage(v) returns, for every value v, true exactly when v has a
\* string name, an array dependencies and an object or function module, and
\* false otherwise; it never throws.
C12_IsPackage ==
    pc = "checked" =>
        /\ calls[1].ok
        /\ calls[1].b = IF PackageShaped(calls[1].a) THEN Bool("true") ELSE Bool("false")

\* C13: every module entry has kind factory, value or type; a factory or type
\* entry holds a function, a value entry holds an object that is not a
\* function; factory and type calls with a value that is not a function fail.
C13_WellTagged ==
    /\ \A key \in DOMAIN module :
          /\ module[key][1] \in {"factory", "value", "type"}
          /\ module[key][1] \in {"factory", "type"} => module[key][2].k = "function"
          /\ module[key][1] = "value" => module[key][2].k \in {"object", "array"}
    /\ \A i \in 1..Len(calls) :
          (calls[i].op \in {"factory", "type"} /\ RegisteredValue(i).k # "function")
          => ~calls[i].ok

\* A processor, factory or type call has just returned.
NameRegistered ==
    /\ calls' # calls
    /\ calls'[Len(calls')].op \in {"processor", "factory", "type"}
    /\ calls'[Len(calls')].ok

\* C14: a successful processor, factory or type call with a string first
\* argument stores the second argument under exactly that string, whatever
\* the value's own name; with any other first argument it stores that value
\* under its own name. No other key is written.
C14_NamePrecedence ==
    [][NameRegistered =>
          LET c == calls'[Len(calls')]
              key == IF c.a.k = "string" THEN c.a.s ELSE c.a.nm.s
              value == IF c.a.k = "string" THEN c.b ELSE c.a
          IN  /\ DOMAIN module' = DOMAIN module \cup {key}
              /\ module'[key][2] = value
              /\ \A other \in DOMAIN module \ {key} : module'[other] = module[other]]_vars

\* function p_e_1() {} registered as "a", and under no other name.
C14_Witness ==
    /\ Len(calls) = 2
    /\ Last = Call("factory", Str("a"), fnP, TRUE)
    /\ DOMAIN module = {"a"}
    /\ module["a"] = <<"factory", fnP>>

\* The number of places of a list that hold x.
Occurrences(list, x) == Cardinality({j \in 1..Len(list) : list[j] = x})

\* C15: processors has one element per successful processor call, a name as
\* many times as it was registered; a successful processor call appends one
\* element, and no other call changes processors.
C15_ProcessorsList ==
    /\ [](/\ Len(processors) = Cardinality(OkCalls("processor"))
          /\ \A i \in OkCalls("processor") :
                Occurrences(processors, ResolvedName(i))
                    = Cardinality({j \in OkCalls("processor") :
                                      ResolvedName(j) = ResolvedName(i)}))
    /\ [][calls' # calls =>
            IF calls'[Len(calls')].op = "processor" /\ calls'[Len(calls')].ok
            THEN /\ Len(processors') = Len(processors) + 1
                 /\ SubSeq(processors', 1, Len(processors)) = processors
            ELSE processors' = processors]_vars

\* The name "a" registered as a processor twice, and listed twice.
C15_Witness ==
    /\ Len(calls) = 3
    /\ \A i \in {2, 3} : calls[i].op = "processor" /\ calls[i].ok
    /\ processors = <<Prim("string", "a"), Prim("string", "a")>>
    /\ DOMAIN module = {"a"}

\* Nothing but the property `key` differs between the maps old and new.
OnlyKey(old, new, key) ==
    /\ DOMAIN old \subseteq DOMAIN new
    /\ DOMAIN new \subseteq DOMAIN old \cup {key}
    /\ \A k \in DOMAIN old \ {key} : new[k] = old[k]

\* The key a processor, factory or type call names.
ArgumentKey(c) == IF c.a.k = "string" THEN c.a.s ELSE c.a.nm.s

\* C16: a registration call never changes name or dependencies; config
\* changes configFns only; factory and type change module[name] only;
\* processor changes module[name] and processors only; eventHandler(e, f)
\* changes one key of module and handlers[e] only.
C16_Frame ==
    [][(calls' # calls /\ calls'[Len(calls')].op \notin {"new", "isPackage"}) =>
          LET c == calls'[Len(calls')]
          IN  /\ UNCHANGED <<name, dependencies>>
              /\ c.op = "config" => UNCHANGED <<module, processors, handlers>>
              /\ c.op \in {"factory", "type"} =>
                    /\ UNCHANGED <<processors, configFns, handlers>>
                    /\ OnlyKey(module, module', ArgumentKey(c))
              /\ c.op = "processor" =>
                    /\ UNCHANGED <<configFns, handlers>>
                    /\ OnlyKey(module, module', ArgumentKey(c))
              /\ c.op = "eventHandler" =>
                    /\ UNCHANGED <<processors, configFns>>
                    /\ OnlyKey(handlers, handlers', c.a.s)
                    /\ \/ module' = module
                       \/ \E key \in DOMAIN module' : OnlyKey(module, module', key)]_vars

\* A handler added for event e beside a handler of event f: the list of f and
\* the entry of its handler are as they were.
C16_Witness ==
    /\ Len(calls) = 3
    /\ calls[2] = Call("eventHandler", Str("f"), fnA, TRUE)
    /\ calls[3] = Call("eventHandler", Str("e"), fnAnon, TRUE)
    /\ Listed("f") = <<Prim("string", "a")>>
    /\ Listed("e") = <<Prim("string", "p_e_0")>>
    /\ module["a"] = <<"factory", fnA>>
    /\ DOMAIN module = {"a", "p_e_0"}

\* C17: every name in processors and in every handlers[e] is a key of module,
\* and no call removes a key of module.
C17_ListedNamesRegistered ==
    /\ [](/\ \A j \in 1..Len(processors) : processors[j].s \in DOMAIN module
          /\ \A e \in DOMAIN handlers : \A j \in 1..Len(Listed(e)) :
                Listed(e)[j].s \in DOMAIN module)
    /\ [][DOMAIN module \subseteq DOMAIN module']_vars

\* A processor and a handler, both listed and both keys of module.
C17_Witness ==
    /\ Len(calls) = 3
    /\ calls[2] = Call("processor", objSeven, undefinedV, TRUE)
    /\ calls[3] = Call("eventHandler", Str("e"), fnA, TRUE)
    /\ processors = <<Prim("number", "7")>>
    /\ Listed("e") = <<Prim("string", "a")>>
    /\ DOMAIN module = {"7", "a"}

\* C18: a descriptor the constructor returned satisfies isPackage, and still
\* does after any sequence of registration calls.
C18_ConstructedIsPackage ==
    pc = "ready" => isPackage(ThisPackage).ok /\ isPackage(ThisPackage).value

====
